---- MODULE Spec2Model ----
(***************************************************************************)
(* Social-DISK: the concurrent, rate-limit-aware collection pipeline       *)
(* (scraper.fetch_posts, scraper.run_scraper) and the novelty-verification *)
(* pipeline (app.main "Safety Intelligence Hub", batch_verify_signals,     *)
(* verify_claim_logic).                                                    *)
(*                                                                         *)
(* Spec      : scraper.run_scraper over the sources, one asyncio task per  *)
(*             source; a step of a task runs from one await to the next.   *)
(* FairSpec  : Spec with the event loop's fairness (sleeps end, requests   *)
(*             are answered or time out).                                  *)
(* SpecReplay : two fetch_posts runs given the same canned responses.      *)
(* SpecStandalone, FairStandalone : reddit_scraper.main and its fetches.   *)
(* SpecPipeline : the "Verify Signals" run of app.main over raw_texts.     *)
(* SpecMatch : verify_claim_logic applied to bounded graphs and queries.   *)
(***************************************************************************)
EXTENDS Integers, Sequences, FiniteSets, TLC

\* ---------------------------------------------------------------- bounds
MaxLimit == 2        \* max_posts_per_sub ranges over 0..MaxLimit
MaxPage == 2         \* a 200 page holds 0..MaxPage children

\* ------------------------------------------------------ program constants
max_retries == 3     \* scraper.py:33

\* The subreddits handed to run_scraper, in the order given.
Sources == <<"A", "B">>
Tasks == 1..Len(Sources)

\* Values of data["data"]["after"]: a token, or None when the listing ends.
NoCursor == "None"
Cursors == {"t1", "t2"}

Min(a, b) == IF a < b THEN a ELSE b

\* The observation counters (streak, attempts) count up to two past
\* max_retries and stay there: one past every value the program lets them have.
CountUp(n) == Min(n + 1, max_retries + 2)

VARIABLES
    limit,          \* max_posts_per_sub, the limit of every fetch_posts call
    pc,             \* pc[t]: where task t is suspended ("done": it returned)
    all_posts,      \* all_posts[t]: fetch_posts' accumulator
    after_token,    \* after_token[t]: fetch_posts' pagination cursor
    retries,        \* retries[t]: fetch_posts' retry counter
    params,         \* params[t]: the "after" parameter of the request in flight / last sent
    results,        \* results[t]: what fetch_posts returned (gather's result list; <<>> until then)
    main_pc,        \* run_scraper: "gather" while awaiting asyncio.gather, then "returned"
    flat_data,      \* run_scraper: the flattened list the DataFrame is built from
    wait_time,      \* wait_time[t]: fetch_posts' backoff wait while it sleeps on a 429
    canned,         \* the client's canned responses (<<>>: a live server)
    replayed,       \* replayed[t]: the canned responses handed to t so far
    \* observations of the exchange with the server (history, not program state)
    served,         \* served[t]: the children the server delivered to t, in arrival order
    streak,         \* streak[t]: 429 responses in a row, up to now
    attempts,       \* attempts[t]: requests sent for the current page
    acc_before,     \* acc_before[t]: all_posts[t] when the current page was first requested
    last_resp       \* last_resp[t]: the kind of the latest response, and the next
                    \* cursor of the latest 200 page (a 429 answer leaves it)

scraperVars == <<limit, pc, all_posts, after_token, retries, params, results,
                 main_pc, flat_data, wait_time, canned, replayed,
                 served, streak, attempts, acc_before, last_resp>>

VARIABLES
    graph,          \* the knowledge graph: a set of directed edges [s, o, type]
    driver_ok,      \* get_neo4j_driver() (cached): TRUE a driver, FALSE None
    raw_texts,      \* raw_texts[k]: the length of the k-th text
    analysis_limit, \* the "Max Posts to Analyze" number input
    hub_pc,         \* "idle", "loop" (in the for loop), "done", "aborted" (uncaught exception)
    i,              \* the number of texts of texts_to_process the loop has passed
    all_extractions,
    all_verifications,
    \* observations (history, not program state)
    calls,          \* the indices of the texts the extractor was called with, in call order
    extract_log,    \* per extractor call: the text, what it returned, the graph then
    reached,        \* the relations handed to batch_verify_signals
    query,          \* SpecMatch: the (subject, object_entity) pair being verified
    last_check      \* SpecMatch: the latest verify_claim_logic call: the graph it
                    \* read, its answer, and the answer of the call before it

hubVars == <<graph, driver_ok, raw_texts, analysis_limit, hub_pc, i, all_extractions,
             all_verifications, calls, extract_log, reached, query, last_check>>

vars == <<scraperVars, hubVars>>

\* ------------------------------------------------------------ fetch_posts

\* The dict appended for one child: its source_subreddit and the listing's id.
Post(t, k) == [source_subreddit |-> Sources[t], id |-> k]

\* The n children of the next page the server sends to t.
Children(t, n) == [j \in 1..n |-> Post(t, Len(served[t]) + j)]

\* Python truthiness of the cursor: `if after_token:` / `if not after_token:`.
TruthyAlways(tok) == TRUE
Truthy(tok) == tok # NoCursor /\ tok # ""

\* all_posts[:limit] for limit >= 0.
TruncateKeepAll(posts, n) == posts
Truncate(posts, n) == SubSeq(posts, 1, Min(n, Len(posts)))

\* `while len(all_posts) < limit`.
LoopGuardAlways(posts) == TRUE
LoopGuard(posts) == Len(posts) < limit

\* `if after_token: params["after"] = after_token`.
RequestAfterNone(tok) == NoCursor
RequestAfterStale(tok) == IF Truthy(tok) THEN "t1" ELSE NoCursor
RequestAfter(tok) == IF Truthy(tok) THEN tok ELSE NoCursor

\* `wait_time = (2 ** retries) + random.uniform(1, 3)`: the two terms, the
\* jitter at the ends of its range; no wait outside the backoff sleep.
Jitters == {1, 3}
NoWait == [base |-> 0, jitter |-> 0]
WaitTimeLinear(r, j) == [base |-> r + 1, jitter |-> j]
WaitTime(r, j) == [base |-> 2 ^ r, jitter |-> j]

\* `retries += 1` after the sleep of `wait`.
IncrementByWait(r, wait) == r + wait.base + wait.jitter
IncrementNever(r, wait) == r
Increment(r, wait) == r + 1

\* `retries = 0` on a 200 response.
KeepRetries(r) == r
ResetRetries(r) == 0

\* A response of the server: its kind, and for a 200 page the number of
\* well-formed children and the next cursor.
Response(kind, n, c) == [kind |-> kind, n |-> n, c |-> c]

\* The client answers t's request with r: any r from a live server; from a
\* canned client the next response of the script, the last one ever after.
Answer(t, r) ==
    /\ canned # <<>> => canned[Min(replayed[t] + 1, Len(canned))] = r
    /\ replayed' = IF canned = <<>> THEN replayed
                   ELSE [replayed EXCEPT ![t] = @ + 1]
    /\ UNCHANGED canned

\* `if retries > max_retries: break`.
GiveUpEarly(r) == r >= max_retries
GiveUpLate(r) == r > max_retries + 1
GiveUp(r) == r > max_retries

\* `except Exception as e:` around the body of the loop: the exceptions a page
\* request can end with (httpx timeout / connection error, response.json(),
\* child["data"]) and the ones the clause catches.
NetworkErrors == {"TimeoutException", "ConnectError"}
ParseErrors == {"JSONDecodeError", "KeyError"}
ExceptHTTPErrorOnly(e) == e \in NetworkErrors
ExceptException(e) == e \in NetworkErrors \cup ParseErrors

\* `return all_posts[:limit]`, after a break or when the loop guard fails.
Return(t, posts) ==
    /\ pc' = [pc EXCEPT ![t] = "done"]
    /\ results' = [results EXCEPT ![t] = Truncate(posts, limit)]
    /\ UNCHANGED <<params, attempts, acc_before>>

\* An exception the except clause does not catch leaves fetch_posts.
Raise(t) ==
    /\ pc' = [pc EXCEPT ![t] = "raised"]
    /\ UNCHANGED <<params, results, attempts, acc_before>>

\* Exception e is raised inside the try block: except -> break -> return.
Handle(t, e, posts) ==
    IF ExceptException(e) THEN Return(t, posts) ELSE Raise(t)

\* The top of the loop with accumulator `posts` and cursor `tok`: send the next
\* request (and suspend in client.get) or leave the loop and return.
LoopTop(t, posts, tok, newPage) ==
    IF LoopGuard(posts)
    THEN /\ pc' = [pc EXCEPT ![t] = "awaiting"]
         /\ params' = [params EXCEPT ![t] = RequestAfter(tok)]
         /\ attempts' = [attempts EXCEPT ![t] = IF newPage THEN 1 ELSE CountUp(@)]
         /\ acc_before' = [acc_before EXCEPT ![t] = IF newPage THEN posts ELSE @]
         /\ UNCHANGED results
    ELSE Return(t, posts)

\* `await asyncio.sleep(random.uniform(1.5, 3.0))` after a page with a next
\* cursor: the task suspends before the next pass of the loop.
NoPoliteSleep(t, posts, tok) == LoopTop(t, posts, tok, TRUE)
PoliteSleep(t, posts, tok) ==
    /\ pc' = [pc EXCEPT ![t] = "polite"]
    /\ UNCHANGED <<params, results, attempts, acc_before>>

\* The task starts: lines 23-33, then the first pass of the loop.
Start(t) ==
    /\ UNCHANGED hubVars
    /\ pc[t] = "start"
    /\ LoopTop(t, all_posts[t], after_token[t], TRUE)
    /\ UNCHANGED <<limit, all_posts, after_token, retries, main_pc, flat_data,
                   wait_time, canned, replayed, served, streak, last_resp>>

\* client.get raises (timeout, connection error): except -> break -> return.
RequestException(t) ==
    /\ UNCHANGED hubVars
    /\ pc[t] = "awaiting"
    /\ Answer(t, Response("exception", 0, NoCursor))
    /\ UNCHANGED wait_time
    /\ last_resp' = [last_resp EXCEPT ![t] = [kind |-> "exception", cursor |-> NoCursor]]
    /\ streak' = [streak EXCEPT ![t] = 0]
    /\ \E e \in NetworkErrors : Handle(t, e, all_posts[t])
    /\ UNCHANGED <<limit, all_posts, after_token, retries, main_pc, flat_data, served>>

\* Status 429: suspend in asyncio.sleep(2 ** retries + jitter).
Respond429(t) ==
    /\ UNCHANGED hubVars
    /\ pc[t] = "awaiting"
    /\ Answer(t, Response("429", 0, NoCursor))
    /\ \E j \in Jitters : wait_time' = [wait_time EXCEPT ![t] = WaitTime(retries[t], j)]
    /\ pc' = [pc EXCEPT ![t] = "backoff"]
    /\ streak' = [streak EXCEPT ![t] = CountUp(@)]
    /\ last_resp' = [last_resp EXCEPT ![t] = [kind |-> "429", cursor |-> @.cursor]]
    /\ UNCHANGED <<limit, all_posts, after_token, retries, params, results, main_pc,
                   flat_data, served, attempts, acc_before>>

\* The backoff sleep ends: retries += 1, then give up or `continue`.
WakeBackoff(t) ==
    /\ UNCHANGED hubVars
    /\ pc[t] = "backoff"
    /\ retries' = [retries EXCEPT ![t] = Increment(@, wait_time[t])]
    /\ wait_time' = [wait_time EXCEPT ![t] = NoWait]
    /\ UNCHANGED <<canned, replayed>>
    /\ IF GiveUp(retries'[t])
       THEN Return(t, all_posts[t])
       ELSE LoopTop(t, all_posts[t], after_token[t], FALSE)
    /\ UNCHANGED <<limit, all_posts, after_token, main_pc, flat_data, served, streak,
                   last_resp>>

\* Any other status than 200 and 429: break -> return.
RespondOther(t) ==
    /\ UNCHANGED hubVars
    /\ pc[t] = "awaiting"
    /\ Answer(t, Response("other", 0, NoCursor))
    /\ UNCHANGED wait_time
    /\ last_resp' = [last_resp EXCEPT ![t] = [kind |-> "other", cursor |-> NoCursor]]
    /\ streak' = [streak EXCEPT ![t] = 0]
    /\ Return(t, all_posts[t])
    /\ UNCHANGED <<limit, all_posts, after_token, retries, main_pc, flat_data, served>>

\* Status 200 with a well-formed page of n children and next cursor c.
Respond200(t, n, c) ==
    /\ UNCHANGED hubVars
    /\ pc[t] = "awaiting"
    /\ Answer(t, Response("page", n, IF n = 0 THEN NoCursor ELSE c))
    /\ UNCHANGED wait_time
    /\ retries' = [retries EXCEPT ![t] = ResetRetries(@)]
    /\ streak' = [streak EXCEPT ![t] = 0]
    /\ IF n = 0
       THEN \* `if not children: break`
            /\ last_resp' = [last_resp EXCEPT ![t] = [kind |-> "empty", cursor |-> NoCursor]]
            /\ Return(t, all_posts[t])
            /\ UNCHANGED <<all_posts, after_token, served>>
       ELSE /\ all_posts' = [all_posts EXCEPT ![t] = @ \o Children(t, n)]
            /\ served' = [served EXCEPT ![t] = @ \o Children(t, n)]
            /\ after_token' = [after_token EXCEPT ![t] = c]
            /\ last_resp' = [last_resp EXCEPT ![t] = [kind |-> "page", cursor |-> c]]
            /\ IF ~Truthy(c)
               THEN Return(t, all_posts'[t])
               ELSE PoliteSleep(t, all_posts'[t], c)
    /\ UNCHANGED <<limit, main_pc, flat_data>>

\* Status 200 with a malformed body: response.json() raises, or the k+1-th child
\* has no "data" after k children were appended: except -> break -> return.
MalformedPage(t, k) ==
    /\ UNCHANGED hubVars
    /\ pc[t] = "awaiting"
    /\ Answer(t, Response("malformed", k, NoCursor))
    /\ UNCHANGED wait_time
    /\ retries' = [retries EXCEPT ![t] = ResetRetries(@)]
    /\ streak' = [streak EXCEPT ![t] = 0]
    /\ all_posts' = [all_posts EXCEPT ![t] = @ \o Children(t, k)]
    /\ served' = [served EXCEPT ![t] = @ \o Children(t, k)]
    /\ last_resp' = [last_resp EXCEPT ![t] = [kind |-> "malformed", cursor |-> NoCursor]]
    /\ \E e \in ParseErrors : Handle(t, e, all_posts'[t])
    /\ UNCHANGED <<limit, after_token, main_pc, flat_data>>

\* The politeness sleep ends: back to the top of the loop.
WakePolite(t) ==
    /\ UNCHANGED hubVars
    /\ pc[t] = "polite"
    /\ LoopTop(t, all_posts[t], after_token[t], TRUE)
    /\ UNCHANGED <<limit, all_posts, after_token, retries, main_pc, flat_data,
                   wait_time, canned, replayed, served, streak, last_resp>>

\* ------------------------------------------------------------ run_scraper

\* asyncio.gather(*tasks) resumes run_scraper once every task is done.
SettledAny == \E t \in Tasks : pc[t] = "done"
AllSettled == \A t \in Tasks : pc[t] = "done"

\* [post for sub_result in results for post in sub_result]
RECURSIVE FlattenFrom(_, _)
FlattenFrom(res, t) ==
    IF t > Len(Sources) THEN <<>> ELSE res[t] \o FlattenFrom(res, t + 1)

RECURSIVE FlattenBackFrom(_, _)
FlattenBackFrom(res, t) ==
    IF t < 1 THEN <<>> ELSE res[t] \o FlattenBackFrom(res, t - 1)

FlattenReversed(res) == FlattenBackFrom(res, Len(Sources))
Flatten(res) == FlattenFrom(res, 1)

GatherReturns ==
    /\ UNCHANGED hubVars
    /\ main_pc = "gather"
    /\ AllSettled
    /\ main_pc' = "returned"
    /\ flat_data' = Flatten(results)
    /\ UNCHANGED <<limit, pc, all_posts, after_token, retries, params, results,
                   wait_time, canned, replayed,
                   served, streak, attempts, acc_before, last_resp>>

\* ------------------------------------------------------ names and strings

\* A name (a Subject, an Object, a node's name property) is a sequence of
\* characters; NoName is None: a missing key, a node without a name, Cypher null.
NoName == <<"None">>

\* Python truthiness of rel.get("Subject"): None and "" are falsy.
TruthyName(name) == name # NoName /\ name # <<>>

\* Cypher toLower: null for null, else the string in lower case.
LowerChar(ch) ==
    CASE ch = "A" -> "a" [] ch = "B" -> "b" [] ch = "C" -> "c"
      [] ch = "M" -> "m" [] ch = "H" -> "h" [] OTHER -> ch
toLowerIdentity(str) == str
toLower(str) ==
    IF str = NoName THEN NoName ELSE [k \in 1..Len(str) |-> LowerChar(str[k])]

\* Cypher `hay CONTAINS needle`: null (no match) when either is null.
ContainsExact(hay, needle) == hay # NoName /\ needle # NoName /\ hay = needle
Contains(hay, needle) ==
    /\ hay # NoName
    /\ needle # NoName
    /\ \E k \in 1..(Len(hay) - Len(needle) + 1) :
           SubSeq(hay, k, k + Len(needle) - 1) = needle

\* ------------------------------------------------------ verify_claim_logic

\* MATCH (s)-[r]->(o) WHERE toLower(s.name) CONTAINS toLower($sub)
\*   AND toLower(o.name) CONTAINS toLower($obj) RETURN type(r): the rows.
MatchRows(g, sub, obj) ==
    {e \in g : /\ Contains(toLower(e.s), toLower(sub))
               /\ Contains(toLower(e.o), toLower(obj))}

\* Result.single(): None (<<>>) without rows, else one record <<relation_type>>
\* (the first row, with a warning, when there are several).
SingleStrict(rows) ==
    IF Cardinality(rows) # 1 THEN <<>> ELSE <<(CHOOSE e \in rows : TRUE).type>>
Single(rows) ==
    IF rows = {} THEN <<>> ELSE <<(CHOOSE e \in rows : TRUE).type>>

\* return "KNOWN" if result else "NOVEL"
verify_claim_logic(g, subject, object_entity) ==
    IF Single(MatchRows(g, subject, object_entity)) # <<>> THEN "KNOWN" ELSE "NOVEL"

\* -------------------------------------------------- the verification run

MaxTexts == 3        \* raw_texts holds 1..MaxTexts texts
MaxEdges == 2        \* the graph holds at most MaxEdges edges

min_text_len == 20   \* app.py:301
summary_len == 50    \* app.py:309

\* Lengths of the texts: below the threshold and at it.
TextLens == {10, 20}

\* texts_to_process = raw_texts[:analysis_limit]
TextsKeepAll(texts, n) == texts
TextsToProcess(texts, n) == SubSeq(texts, 1, Min(n, Len(texts)))

\* `if len(text) < 20: continue`
TooShortStrict(len) == len <= min_text_len
TooShort(len) == len < min_text_len

\* text[:50] + "...": the text it is cut from and the characters kept.
Summary(t, len) == [text |-> t, chars |-> Min(len, summary_len)]

\* `"error" not in ai_result` decides success.
IsErrorNever(ai) == FALSE
IsError(ai) == ai.error

\* The strict filter of lines 316-321.
IsAdverseAnyType(rel) == TruthyName(rel.Subject) /\ TruthyName(rel.Object)
IsAdverse(rel) ==
    /\ rel.Type = "Adverse Event"
    /\ TruthyName(rel.Subject)
    /\ TruthyName(rel.Object)

\* The relations of one extraction, each with where it comes from: text t,
\* position r in ai_result["Relations"] (history carried with the relation).
Tagged(rels, t) == [k \in 1..Len(rels) |-> [rel |-> rels[k], t |-> t, r |-> k]]

TestAdverse(x) == IsAdverse(x.rel)
AdverseEvents(tagged) == SelectSeq(tagged, TestAdverse)

\* The dict batch_verify_signals appends for one relation (lines 82-88).
VerifiedRecord(x, g) ==
    [Subject |-> x.rel.Subject,
     Predicate |-> IF x.rel.Predicate = "None" THEN "RELATED_TO" ELSE x.rel.Predicate,
     Object |-> x.rel.Object,
     Type |-> IF x.rel.Type = "None" THEN "General" ELSE x.rel.Type,
     Status |-> verify_claim_logic(g, x.rel.Subject, x.rel.Object),
     t |-> x.t, r |-> x.r]

\* The loop of batch_verify_signals over relations_list, with a driver.
RECURSIVE VerifyEach(_, _)
VerifyEach(tagged, g) ==
    IF tagged = <<>> THEN <<>>
    ELSE (IF TruthyName(Head(tagged).rel.Subject) /\ TruthyName(Head(tagged).rel.Object)
          THEN <<VerifiedRecord(Head(tagged), g)>> ELSE <<>>)
         \o VerifyEach(Tail(tagged), g)

\* batch_verify_signals: [] without a driver.
batch_verify_signals(tagged, g) ==
    IF ~driver_ok THEN <<>> ELSE VerifyEach(tagged, g)

\* `for v in verified: v["Source"] = text[:50] + "..."`
WithSource(verified, src) ==
    [k \in 1..Len(verified) |->
        [Subject |-> verified[k].Subject, Predicate |-> verified[k].Predicate,
         Object |-> verified[k].Object, Type |-> verified[k].Type,
         Status |-> verified[k].Status, Source |-> src,
         t |-> verified[k].t, r |-> verified[k].r]]

\* all_verifications.extend(verified)
Extend(old, new) == old \o new

\* What the extractor can return (it is an opaque collaborator).
Cr == <<"c", "r">>
Bl == <<"b", "l">>
He == <<"h", "e">>
RelKnown == [Subject |-> Cr, Predicate |-> "CAUSES", Object |-> Bl, Type |-> "Adverse Event"]
RelNovel == [Subject |-> Cr, Predicate |-> "None", Object |-> He, Type |-> "Adverse Event"]
RelNoObject == [Subject |-> <<"X">>, Predicate |-> "CAUSES", Object |-> <<>>, Type |-> "Adverse Event"]
RelNoSubject == [Subject |-> NoName, Predicate |-> "CAUSES", Object |-> Bl, Type |-> "Adverse Event"]
RelComposition == [Subject |-> Cr, Predicate |-> "CONTAINS", Object |-> Bl, Type |-> "Composition"]
RelNoType == [Subject |-> Cr, Predicate |-> "CAUSES", Object |-> Bl, Type |-> "None"]

Failure == [error |-> TRUE, has_relations |-> FALSE, Relations |-> <<>>]
Extracted(rels) == [error |-> FALSE, has_relations |-> TRUE, Relations |-> rels]
ExtractorOutcomes ==
    { Failure,
      [error |-> FALSE, has_relations |-> FALSE, Relations |-> <<>>],
      Extracted(<<>>),
      Extracted(<<RelNoObject>>),
      Extracted(<<RelNovel, RelComposition, RelKnown>>),
      Extracted(<<RelNoSubject, RelKnown, RelNoType>>) }

\* The adverse events of one successful extraction of text t (lines 313-321).
Adverse(out, t) ==
    IF out.has_relations /\ out.Relations # <<>>
    THEN AdverseEvents(Tagged(out.Relations, t))
    ELSE <<>>

Relations(tagged) == {tagged[k].rel : k \in 1..Len(tagged)}

Texts == TextsToProcess(raw_texts, analysis_limit)

\* The entry appended to all_extractions.
Entry(out, t) ==
    [Source_Summary |-> Summary(t, Texts[t]), has_relations |-> out.has_relations,
     Relations |-> out.Relations]

\* `all_extractions.append(ai_result)`, before the relations are looked at.
LogEntryIfAdverse(log, out, t) ==
    IF Adverse(out, t) # <<>> THEN Append(log, Entry(out, t)) ELSE log
LogEntry(log, out, t) == Append(log, Entry(out, t))

\* `if len(text) < 20: continue`
SkipShort ==
    /\ UNCHANGED scraperVars
    /\ hub_pc = "loop"
    /\ i < Len(Texts)
    /\ TooShort(Texts[i + 1])
    /\ i' = i + 1
    /\ UNCHANGED <<graph, driver_ok, raw_texts, analysis_limit, hub_pc, all_extractions,
                   all_verifications, calls, extract_log, reached, query, last_check>>

\* The extractor is called for text i + 1 and returns `out`.
Called(out) ==
    /\ hub_pc = "loop"
    /\ i < Len(Texts)
    /\ ~TooShort(Texts[i + 1])
    /\ calls' = Append(calls, i + 1)
    /\ extract_log' = Append(extract_log, [t |-> i + 1, out |-> out, graph |-> graph])

\* The extraction failed: nothing is recorded, the loop goes on.
ExtractFails(out) ==
    /\ UNCHANGED scraperVars
    /\ Called(out)
    /\ IsError(out)
    /\ i' = i + 1
    /\ UNCHANGED <<graph, driver_ok, raw_texts, analysis_limit, hub_pc, all_extractions,
                   all_verifications, reached, query, last_check>>

\* The extraction succeeded with no adverse event surviving the filter.
ExtractNoAdverse(out) ==
    /\ UNCHANGED scraperVars
    /\ Called(out)
    /\ ~IsError(out)
    /\ Adverse(out, i + 1) = <<>>
    /\ all_extractions' = LogEntry(all_extractions, out, i + 1)
    /\ i' = i + 1
    /\ UNCHANGED <<graph, driver_ok, raw_texts, analysis_limit, hub_pc,
                   all_verifications, reached, query, last_check>>

\* The extraction succeeded and its adverse events are verified.
ExtractAndVerify(out) ==
    /\ UNCHANGED scraperVars
    /\ Called(out)
    /\ ~IsError(out)
    /\ Adverse(out, i + 1) # <<>>
    /\ all_extractions' = LogEntry(all_extractions, out, i + 1)
    /\ reached' = reached \cup Relations(Adverse(out, i + 1))
    /\ all_verifications' =
           Extend(all_verifications,
                  WithSource(batch_verify_signals(Adverse(out, i + 1), graph),
                             Summary(i + 1, Texts[i + 1])))
    /\ i' = i + 1
    /\ UNCHANGED <<graph, driver_ok, raw_texts, analysis_limit, hub_pc, query, last_check>>

\* The extraction succeeded and a lookup (driver.session(), execute_read)
\* raises: nothing catches it, the run ends with the exception.
StoreFails(out) ==
    /\ UNCHANGED scraperVars
    /\ Called(out)
    /\ ~IsError(out)
    /\ Adverse(out, i + 1) # <<>>
    /\ driver_ok
    /\ all_extractions' = LogEntry(all_extractions, out, i + 1)
    /\ reached' = reached \cup Relations(Adverse(out, i + 1))
    /\ hub_pc' = "aborted"
    /\ UNCHANGED <<graph, driver_ok, raw_texts, analysis_limit, i, all_verifications,
                   query, last_check>>

\* The loop is over: the results are displayed.
Finish ==
    /\ UNCHANGED scraperVars
    /\ hub_pc = "loop"
    /\ i = Len(Texts)
    /\ hub_pc' = "done"
    /\ UNCHANGED <<graph, driver_ok, raw_texts, analysis_limit, i, all_extractions,
                   all_verifications, calls, extract_log, reached, query, last_check>>

\* No query, no check yet.
NoQuery == [subject |-> <<"-">>, object_entity |-> <<"-">>]
NoCheck == [graph |-> {}, status |-> "none", prev |-> "none"]

\* The graph is populated elsewhere.
GraphGrows(e) ==
    /\ UNCHANGED scraperVars
    /\ hub_pc \in {"idle", "loop"}
    /\ e \notin graph
    /\ Cardinality(graph) < MaxEdges
    /\ graph' = graph \cup {e}
    /\ UNCHANGED <<driver_ok, raw_texts, analysis_limit, hub_pc, i, all_extractions,
                   all_verifications, calls, extract_log, reached, query, last_check>>

\* session.execute_read(verify_claim_logic, subject, object_entity)
VerifyOne ==
    /\ UNCHANGED scraperVars
    /\ query # NoQuery
    /\ last_check' = [graph |-> graph,
                      status |-> verify_claim_logic(graph, query.subject,
                                                    query.object_entity),
                      prev |-> last_check.status]
    /\ last_check' # last_check
    /\ UNCHANGED <<graph, driver_ok, raw_texts, analysis_limit, hub_pc, i, all_extractions,
                   all_verifications, calls, extract_log, reached, query>>

\* ------------------------------------------------------------ the inputs

\* Edges the graph of a verification run may hold.
HubEdges ==
    { [s |-> <<"C", "r", "M">>, o |-> <<"B", "l", "o">>, type |-> "CAUSES"],
      [s |-> <<"c", "r">>, o |-> <<"H", "e", "a">>, type |-> "CONTAINS"] }

\* Edges and queries verify_claim_logic is applied to in SpecMatch.
MaxNameLen == 2      \* a query string holds 0..MaxNameLen characters
QueryChars == {"a", "A", "b"}
MatchEdges ==
    { [s |-> <<"A", "b">>, o |-> <<"b", "a">>, type |-> "CAUSES"],
      [s |-> <<"A", "b">>, o |-> <<"b", "a">>, type |-> "CONTAINS"],
      [s |-> <<"a">>, o |-> <<"B">>, type |-> "CAUSES"],
      [s |-> <<"b", "A", "b">>, o |-> <<"a", "a">>, type |-> "CAUSES"],
      [s |-> NoName, o |-> <<"a">>, type |-> "CAUSES"],
      [s |-> <<"b">>, o |-> <<>>, type |-> "CONTAINS"] }
QueryNames ==
    {NoName} \cup UNION {[1..n -> QueryChars] : n \in 0..MaxNameLen}

Graphs(edges) == {g \in SUBSET edges : Cardinality(g) <= MaxEdges}

\* ------------------------------------------------------------------ Spec

InitScraper ==
    /\ pc = [t \in Tasks |-> "start"]
    /\ all_posts = [t \in Tasks |-> <<>>]
    /\ after_token = [t \in Tasks |-> NoCursor]
    /\ retries = [t \in Tasks |-> 0]
    /\ params = [t \in Tasks |-> NoCursor]
    /\ results = [t \in Tasks |-> <<>>]
    /\ main_pc = "gather"
    /\ flat_data = <<>>
    /\ wait_time = [t \in Tasks |-> NoWait]
    /\ replayed = [t \in Tasks |-> 0]
    /\ served = [t \in Tasks |-> <<>>]
    /\ streak = [t \in Tasks |-> 0]
    /\ attempts = [t \in Tasks |-> 0]
    /\ acc_before = [t \in Tasks |-> <<>>]
    /\ last_resp = [t \in Tasks |-> [kind |-> "none", cursor |-> NoCursor]]

InitHub ==
    /\ i = 0
    /\ all_extractions = <<>>
    /\ all_verifications = <<>>
    /\ calls = <<>>
    /\ extract_log = <<>>
    /\ reached = {}
    /\ last_check = NoCheck

\* run_scraper(query, Sources, limit) has created its tasks.
Init ==
    /\ limit \in 0..MaxLimit
    /\ canned = <<>>
    /\ InitScraper
    /\ graph = {} /\ driver_ok = TRUE /\ raw_texts = <<>> /\ analysis_limit = 1
    /\ hub_pc = "idle" /\ query = NoQuery
    /\ InitHub

Next ==
    \/ \E t \in Tasks : Start(t)
    \/ \E t \in Tasks : RequestException(t)
    \/ \E t \in Tasks : Respond429(t)
    \/ \E t \in Tasks : WakeBackoff(t)
    \/ \E t \in Tasks : RespondOther(t)
    \/ \E t \in Tasks : \E n \in 0..MaxPage : \E c \in Cursors \cup {NoCursor} :
           Respond200(t, n, c)
    \/ \E t \in Tasks : \E k \in 0..(MaxPage - 1) : MalformedPage(t, k)
    \/ \E t \in Tasks : WakePolite(t)
    \/ GatherReturns

Spec == Init /\ [][Next]_vars

\* A step of task t. The event loop resumes a task whose sleep is over, and a
\* request ends with a response or, after its 10 s timeout, an exception.
TaskStep(t) ==
    \/ Start(t)
    \/ RequestException(t)
    \/ Respond429(t)
    \/ WakeBackoff(t)
    \/ RespondOther(t)
    \/ \E n \in 0..MaxPage : \E c \in Cursors \cup {NoCursor} : Respond200(t, n, c)
    \/ \E k \in 0..(MaxPage - 1) : MalformedPage(t, k)
    \/ WakePolite(t)

FairSpec ==
    Spec /\ (\A t \in Tasks : WF_vars(TaskStep(t))) /\ WF_vars(GatherReturns)

\* Two fetches of run_scraper served by one canned client: each is handed the
\* same script of responses, whatever the other does meanwhile.
MaxScript == 3       \* a script holds 1..MaxScript responses
CannedResponses ==
    { Response("429", 0, NoCursor), Response("other", 0, NoCursor),
      Response("exception", 0, NoCursor), Response("malformed", 1, NoCursor),
      Response("page", 0, NoCursor), Response("page", 1, "t1"),
      Response("page", 1, NoCursor), Response("page", 2, "t2") }

InitReplay ==
    /\ limit \in 0..MaxLimit
    /\ canned \in UNION {[1..n -> CannedResponses] : n \in 1..MaxScript}
    /\ InitScraper
    /\ graph = {} /\ driver_ok = TRUE /\ raw_texts = <<>> /\ analysis_limit = 1
    /\ hub_pc = "idle" /\ query = NoQuery
    /\ InitHub

SpecReplay == InitReplay /\ [][Next]_vars

\* "Verify Signals" was pressed with a non-empty raw_texts.
InitPipeline ==
    /\ limit = 0
    /\ canned = <<>>
    /\ InitScraper
    /\ graph \in Graphs(HubEdges)
    /\ driver_ok \in BOOLEAN
    /\ raw_texts \in UNION {[1..n -> TextLens] : n \in 1..MaxTexts}
    /\ analysis_limit \in 1..MaxTexts
    /\ hub_pc = "loop" /\ query = NoQuery
    /\ InitHub

NextPipeline ==
    \/ SkipShort
    \/ \E out \in ExtractorOutcomes : ExtractFails(out)
    \/ \E out \in ExtractorOutcomes : ExtractNoAdverse(out)
    \/ \E out \in ExtractorOutcomes : ExtractAndVerify(out)
    \/ \E out \in ExtractorOutcomes : StoreFails(out)
    \/ Finish
    \/ \E e \in HubEdges : GraphGrows(e)

SpecPipeline == InitPipeline /\ [][NextPipeline]_vars

\* verify_claim_logic over bounded graphs and queries.
InitMatch ==
    /\ limit = 0
    /\ canned = <<>>
    /\ InitScraper
    /\ graph \in Graphs(MatchEdges)
    /\ driver_ok = TRUE /\ raw_texts = <<>> /\ analysis_limit = 1
    /\ hub_pc = "idle"
    /\ query \in [subject : QueryNames, object_entity : QueryNames]
    /\ InitHub

NextMatch ==
    \/ \E e \in MatchEdges : GraphGrows(e)
    \/ VerifyOne

SpecMatch == InitMatch /\ [][NextMatch]_vars

\* ------------------------------------------- reddit_scraper (standalone)

\* reddit_scraper.fetch_posts keeps all_posts and after_token only: it has no
\* retry counter, no computed wait and is not run on canned responses here.
StandaloneUnused == <<retries, wait_time, canned, replayed, attempts, acc_before>>

\* `return all_posts[:limit]`.
StandaloneReturn(t, posts) ==
    /\ pc' = [pc EXCEPT ![t] = "done"]
    /\ results' = [results EXCEPT ![t] = Truncate(posts, limit)]
    /\ UNCHANGED params

\* `while len(all_posts) < limit:` then the request, or the return.
StandaloneLoopTop(t, posts, tok) ==
    IF Len(posts) < limit
    THEN /\ pc' = [pc EXCEPT ![t] = "awaiting"]
         /\ params' = [params EXCEPT ![t] = IF Truthy(tok) THEN tok ELSE NoCursor]
         /\ UNCHANGED results
    ELSE StandaloneReturn(t, posts)

StandaloneStart(t) ==
    /\ UNCHANGED <<hubVars, StandaloneUnused>>
    /\ pc[t] = "start"
    /\ StandaloneLoopTop(t, all_posts[t], after_token[t])
    /\ UNCHANGED <<limit, all_posts, after_token, main_pc, flat_data, served, streak,
                   last_resp>>

\* client.get raises: `except Exception: break`.
StandaloneException(t) ==
    /\ UNCHANGED <<hubVars, StandaloneUnused>>
    /\ pc[t] = "awaiting"
    /\ last_resp' = [last_resp EXCEPT ![t] = [kind |-> "exception", cursor |-> NoCursor]]
    /\ streak' = [streak EXCEPT ![t] = 0]
    /\ StandaloneReturn(t, all_posts[t])
    /\ UNCHANGED <<limit, all_posts, after_token, main_pc, flat_data, served>>

\* Status 429: `await asyncio.sleep(10)`.
StandaloneRespond429(t) ==
    /\ UNCHANGED <<hubVars, StandaloneUnused>>
    /\ pc[t] = "awaiting"
    /\ pc' = [pc EXCEPT ![t] = "backoff"]
    /\ streak' = [streak EXCEPT ![t] = CountUp(@)]
    /\ last_resp' = [last_resp EXCEPT ![t] = [kind |-> "429", cursor |-> NoCursor]]
    /\ UNCHANGED <<limit, all_posts, after_token, params, results, main_pc, flat_data,
                   served>>

\* The 10 s sleep ends: `continue # Retry`.
StandaloneRetry(t) ==
    /\ UNCHANGED <<hubVars, StandaloneUnused>>
    /\ pc[t] = "backoff"
    /\ StandaloneLoopTop(t, all_posts[t], after_token[t])
    /\ UNCHANGED <<limit, all_posts, after_token, main_pc, flat_data, served, streak,
                   last_resp>>

\* Neither 429 nor 200: `else: ... break`.
StandaloneRespondOther(t) ==
    /\ UNCHANGED <<hubVars, StandaloneUnused>>
    /\ pc[t] = "awaiting"
    /\ last_resp' = [last_resp EXCEPT ![t] = [kind |-> "other", cursor |-> NoCursor]]
    /\ streak' = [streak EXCEPT ![t] = 0]
    /\ StandaloneReturn(t, all_posts[t])
    /\ UNCHANGED <<limit, all_posts, after_token, main_pc, flat_data, served>>

\* Status 200 with a well-formed page of n children and next cursor c.
StandaloneRespond200(t, n, c) ==
    /\ UNCHANGED <<hubVars, StandaloneUnused>>
    /\ pc[t] = "awaiting"
    /\ streak' = [streak EXCEPT ![t] = 0]
    /\ IF n = 0
       THEN /\ last_resp' = [last_resp EXCEPT ![t] = [kind |-> "empty", cursor |-> NoCursor]]
            /\ StandaloneReturn(t, all_posts[t])
            /\ UNCHANGED <<all_posts, after_token, served>>
       ELSE /\ all_posts' = [all_posts EXCEPT ![t] = @ \o Children(t, n)]
            /\ served' = [served EXCEPT ![t] = @ \o Children(t, n)]
            /\ after_token' = [after_token EXCEPT ![t] = c]
            /\ last_resp' = [last_resp EXCEPT ![t] = [kind |-> "page", cursor |-> c]]
            /\ IF ~Truthy(c)
               THEN StandaloneReturn(t, all_posts'[t])
               ELSE /\ pc' = [pc EXCEPT ![t] = "polite"]
                    /\ UNCHANGED <<params, results>>
    /\ UNCHANGED <<limit, main_pc, flat_data>>

\* Status 200 with a body that breaks parsing after k children were appended.
StandaloneMalformed(t, k) ==
    /\ UNCHANGED <<hubVars, StandaloneUnused>>
    /\ pc[t] = "awaiting"
    /\ streak' = [streak EXCEPT ![t] = 0]
    /\ all_posts' = [all_posts EXCEPT ![t] = @ \o Children(t, k)]
    /\ served' = [served EXCEPT ![t] = @ \o Children(t, k)]
    /\ last_resp' = [last_resp EXCEPT ![t] = [kind |-> "malformed", cursor |-> NoCursor]]
    /\ StandaloneReturn(t, all_posts'[t])
    /\ UNCHANGED <<limit, after_token, main_pc, flat_data>>

\* `await asyncio.sleep(random.uniform(1, 3))` ends.
StandaloneWakePolite(t) ==
    /\ UNCHANGED <<hubVars, StandaloneUnused>>
    /\ pc[t] = "polite"
    /\ StandaloneLoopTop(t, all_posts[t], after_token[t])
    /\ UNCHANGED <<limit, all_posts, after_token, main_pc, flat_data, served, streak,
                   last_resp>>

\* main: the join `await asyncio.gather(*tasks)`, then the flattening.
StandaloneJoin ==
    /\ UNCHANGED <<hubVars, StandaloneUnused>>
    /\ main_pc = "gather"
    /\ \A t \in Tasks : pc[t] = "done"
    /\ main_pc' = "returned"
    /\ flat_data' = Flatten(results)
    /\ UNCHANGED <<limit, pc, all_posts, after_token, params, results, served, streak,
                   last_resp>>

\* main has created one fetch_posts task per subreddit (MAX_POSTS_PER_SUB >= 1).
InitStandalone ==
    /\ limit \in 1..MaxLimit
    /\ canned = <<>>
    /\ InitScraper
    /\ graph = {} /\ driver_ok = TRUE /\ raw_texts = <<>> /\ analysis_limit = 1
    /\ hub_pc = "idle" /\ query = NoQuery
    /\ InitHub

StandaloneStep(t) ==
    \/ StandaloneStart(t)
    \/ StandaloneException(t)
    \/ StandaloneRespond429(t)
    \/ StandaloneRetry(t)
    \/ StandaloneRespondOther(t)
    \/ \E n \in 0..MaxPage : \E c \in Cursors \cup {NoCursor} : StandaloneRespond200(t, n, c)
    \/ \E k \in 0..(MaxPage - 1) : StandaloneMalformed(t, k)
    \/ StandaloneWakePolite(t)

NextStandalone ==
    \/ \E t \in Tasks : StandaloneStart(t)
    \/ \E t \in Tasks : StandaloneException(t)
    \/ \E t \in Tasks : StandaloneRespond429(t)
    \/ \E t \in Tasks : StandaloneRetry(t)
    \/ \E t \in Tasks : StandaloneRespondOther(t)
    \/ \E t \in Tasks : \E n \in 0..MaxPage : \E c \in Cursors \cup {NoCursor} :
           StandaloneRespond200(t, n, c)
    \/ \E t \in Tasks : \E k \in 0..(MaxPage - 1) : StandaloneMalformed(t, k)
    \/ \E t \in Tasks : StandaloneWakePolite(t)
    \/ StandaloneJoin

SpecStandalone == InitStandalone /\ [][NextStandalone]_vars

\* The same with the event loop's fairness: sleeps end, requests are answered
\* or time out after 10 s.
FairStandalone ==
    SpecStandalone /\ (\A t \in Tasks : WF_vars(StandaloneStep(t)))
                   /\ WF_vars(StandaloneJoin)

\* ================================================================ claims

\* The first n elements of seq.
FirstN(seq, n) == [k \in 1..(IF n < Len(seq) THEN n ELSE Len(seq)) |-> seq[k]]

\* C1: fetch_posts returns at most `limit` posts, whatever the server answered,
\* also when the last page took the accumulator above `limit`.
C1_AtMostLimit ==
    \A t \in Tasks : pc[t] = "done" => Len(results[t]) <= limit

\* A task returned after its last page took all_posts above limit.
C1_Witness ==
    \E t \in Tasks :
        /\ pc[t] = "done"
        /\ limit >= 1
        /\ Len(all_posts[t]) > limit
        /\ Len(results[t]) = limit

\* C2: four 429 answers in a row to one page: the page was requested 4 times
\* (3 retries), no 5th request follows, and fetch_posts returns exactly what it
\* had accumulated before the 429s began; it gives up on nothing less.
C2_AbandonAfterThreeRetries ==
    \A t \in Tasks :
        /\ streak[t] <= 4
        /\ attempts[t] <= 4
        /\ streak[t] = 4 => /\ pc[t] \in {"backoff", "done"}
                            /\ attempts[t] = 4
        /\ (streak[t] = 4 /\ pc[t] = "done") => results[t] = acc_before[t]
        /\ (pc[t] = "done" /\ last_resp[t].kind = "429") => streak[t] = 4

\* A task that had collected posts was abandoned after four 429s in a row.
C2_Witness ==
    \E t \in Tasks :
        /\ pc[t] = "done"
        /\ streak[t] = 4
        /\ attempts[t] = 4
        /\ Len(results[t]) >= 1

\* What the sources contribute, in the order given: the first `limit` children
\* the server delivered to each.
RECURSIVE C3_Expected(_)
C3_Expected(t) ==
    IF t > Len(Sources) THEN <<>>
    ELSE FirstN(served[t], limit) \o C3_Expected(t + 1)

\* C3: under every interleaving the result of run_scraper is the concatenation,
\* in source order, of what each source's fetch returned, each in arrival
\* order; a failed or abandoned source contributes its partial sequence and
\* changes nothing of what the others contribute.
C3_ConcatenationInSourceOrder ==
    main_pc = "returned" =>
        /\ flat_data = C3_Expected(1)
        /\ \A t \in Tasks : results[t] = FirstN(served[t], limit)

\* A collected 2 posts, B was abandoned on 429s with nothing: the result is A's.
C3_Witness ==
    /\ main_pc = "returned"
    /\ Len(results[1]) = 2
    /\ streak[2] = 4
    /\ results[2] = <<>>
    /\ Len(flat_data) = 2

\* C4: run_scraper returns nothing until every fetch task has settled.
C4_ReturnsAfterAllSettled ==
    /\ main_pc = "returned" => \A t \in Tasks : pc[t] = "done"
    /\ main_pc # "returned" => flat_data = <<>>

\* The collector returned after a source that slept between two pages and a
\* source that failed at once.
C4_Witness ==
    /\ main_pc = "returned"
    /\ \E t \in Tasks : Len(served[t]) >= 1 /\ last_resp[t].kind = "empty"
    /\ \E t \in Tasks : last_resp[t].kind = "other"

\* C5 as stated: after every well-formed page with items and a next cursor the
\* fetcher requests another page, so it never returns with such a page as the
\* latest response.
C5_AlwaysRequestsNextPage ==
    \A t \in Tasks :
        pc[t] = "done" => ~(last_resp[t].kind = "page" /\ last_resp[t].cursor # NoCursor)

\* After a page with items and a next cursor the task waits in the politeness sleep.
C5_AfterPage(t) ==
    /\ pc[t] = "polite"
    /\ last_resp[t].kind = "page"
    /\ last_resp[t].cursor # NoCursor

\* C5 amended: after a well-formed page with N >= 1 items and a next cursor the
\* fetcher requests another page, carrying exactly that cursor, if fewer than
\* `limit` posts are accumulated; otherwise it returns without another request.
C5_RequestsNextPageBelowLimit ==
    /\ [](\A t \in Tasks :
            /\ pc[t] = "polite" => C5_AfterPage(t)
            /\ (pc[t] = "awaiting" /\ last_resp[t].kind = "page")
                   => params[t] = last_resp[t].cursor
            /\ (pc[t] = "done" /\ last_resp[t].kind = "page"
                    /\ last_resp[t].cursor # NoCursor) => Len(all_posts[t]) >= limit)
    /\ \A t \in Tasks :
           (C5_AfterPage(t) /\ Len(all_posts[t]) < limit)
               ~> (pc[t] = "awaiting" /\ params[t] = last_resp[t].cursor
                       /\ last_resp[t].kind = "page")
    /\ [][\A t \in Tasks :
              (C5_AfterPage(t) /\ Len(all_posts[t]) >= limit /\ pc'[t] # pc[t])
                  => pc'[t] = "done"]_vars

\* The second page is requested with the cursor "t2" the first page returned.
C5_Witness ==
    \E t \in Tasks :
        /\ pc[t] = "awaiting"
        /\ last_resp[t] = [kind |-> "page", cursor |-> "t2"]
        /\ params[t] = "t2"
        /\ Len(all_posts[t]) < limit

\* Case-insensitive containment, letter by letter.
C6_SameLetter(a, b) ==
    \/ a = b
    \/ {a, b} = {"a", "A"}
    \/ {a, b} = {"b", "B"}

C6_Infix(hay, needle) ==
    /\ hay # NoName
    /\ needle # NoName
    /\ \E off \in 0..Len(hay) :
           /\ off + Len(needle) <= Len(hay)
           /\ \A j \in 1..Len(needle) : C6_SameLetter(hay[off + j], needle[j])

\* The edges s -> o of g, of any type, whose names contain the query's strings.
C6_Matching(g, q) ==
    {e \in g : C6_Infix(e.s, q.subject) /\ C6_Infix(e.o, q.object_entity)}

\* C6: verify_claim_logic answers KNOWN iff the graph it reads holds at least
\* one edge s -> o, of any type, with lower(s.name) containing lower(subject)
\* and lower(o.name) containing lower(object); NOVEL otherwise; one match or
\* several give KNOWN alike.
C6_KnownIffMatchingEdge ==
    last_check.status # "none" =>
        /\ last_check.status \in {"KNOWN", "NOVEL"}
        /\ last_check.status = "KNOWN" <=> C6_Matching(last_check.graph, query) # {}

\* ("a", "A") is KNOWN through two edges "Ab" -> "ba" of different types.
C6_Witness ==
    /\ last_check.status = "KNOWN"
    /\ query = [subject |-> <<"a">>, object_entity |-> <<"A">>]
    /\ Cardinality(C6_Matching(last_check.graph, query)) = 2
    /\ \A e \in last_check.graph : e.s = <<"A", "b">> /\ e.o = <<"b", "a">>

\* The texts among the first n that the extractor is to be called with.
RECURSIVE C7_Eligible(_)
C7_Eligible(n) ==
    IF n = 0 THEN <<>>
    ELSE IF n <= analysis_limit /\ raw_texts[n] >= 20
         THEN Append(C7_Eligible(n - 1), n)
         ELSE C7_Eligible(n - 1)

\* The texts the loop has taken up (a run ended by an exception stopped in one).
C7_Visited == IF hub_pc = "aborted" THEN i + 1 ELSE i

\* C7: the extractor is called exactly once, in input order, for each text with
\* index below max_to_process and at least 20 characters that the run takes up,
\* and for no other text; a run that completes takes up them all; the calls
\* never outnumber max_to_process.
C7_ExtractorCalls ==
    hub_pc # "idle" =>
        /\ C7_Visited <= Len(raw_texts)
        /\ calls = C7_Eligible(C7_Visited)
        /\ Len(calls) <= analysis_limit
        /\ hub_pc = "done" => calls = C7_Eligible(Len(raw_texts))

\* Three texts, the second of 10 characters: the extractor saw #1 and #3.
C7_Witness ==
    /\ hub_pc = "done"
    /\ raw_texts = <<20, 10, 20>>
    /\ analysis_limit = 3
    /\ calls = <<1, 3>>

\* max_to_process = 1 with three texts: the extractor saw #1 only.
C7_WitnessLimitOne ==
    /\ hub_pc = "done"
    /\ raw_texts = <<20, 20, 20>>
    /\ analysis_limit = 1
    /\ calls = <<1>>

C8_Verifiable(r) ==
    /\ r.Type = "Adverse Event"
    /\ r.Subject \notin {NoName, <<>>}
    /\ r.Object \notin {NoName, <<>>}

\* C8: only relations of Type "Adverse Event" with a non-empty Subject and
\* Object reach batch_verify_signals, every verification record is of that
\* shape, and the relation X -CAUSES-> "" yields no record.
C8_OnlyAdverseEventsVerified ==
    /\ \A rel \in reached : C8_Verifiable(rel)
    /\ \A k \in 1..Len(all_verifications) :
           /\ C8_Verifiable(all_verifications[k])
           /\ all_verifications[k].Subject # <<"X">>
    /\ RelNoObject \notin reached

\* Extractions holding X -CAUSES-> "", a Composition and a relation without
\* Subject were processed; the two records are the two adverse events.
C8_Witness ==
    /\ hub_pc = "done"
    /\ \E k \in 1..Len(extract_log) : extract_log[k].out = Extracted(<<RelNoObject>>)
    /\ \E k \in 1..Len(extract_log) :
           extract_log[k].out = Extracted(<<RelNovel, RelComposition, RelKnown>>)
    /\ Len(all_verifications) = 2

\* The extractor calls that succeeded, and those whose verification went through.
C9_Ok(e) == ~e.out.error
C9_Succeeded == SelectSeq(extract_log, C9_Ok)
C9_Verified ==
    IF hub_pc = "aborted" THEN SubSeq(C9_Succeeded, 1, Len(C9_Succeeded) - 1)
    ELSE C9_Succeeded

\* What one successful extraction contributes, from its own text, relations
\* and the graph of its moment alone.
C9_RecordsOf(e) ==
    WithSource(batch_verify_signals(Adverse(e.out, e.t), e.graph),
               Summary(e.t, raw_texts[e.t]))

RECURSIVE C9_Records(_)
C9_Records(log) ==
    IF log = <<>> THEN <<>>
    ELSE C9_Records(SubSeq(log, 1, Len(log) - 1)) \o C9_RecordsOf(log[Len(log)])

\* The extractor was called in this step and failed.
C9_FailedCall ==
    /\ Len(extract_log') = Len(extract_log) + 1
    /\ extract_log'[Len(extract_log')].out.error

\* C9: a failed extraction records nothing for its text and the loop goes on
\* to the next text; the log and the records are those of the other texts
\* alone, each as its own extraction gives them.
C9_FailureIsolated ==
    /\ [](/\ all_extractions =
                [k \in 1..Len(C9_Succeeded) |->
                    Entry(C9_Succeeded[k].out, C9_Succeeded[k].t)]
          /\ all_verifications = C9_Records(C9_Verified)
          /\ \A k \in 1..Len(extract_log) :
                 extract_log[k].out.error =>
                     /\ \A n \in 1..Len(all_extractions) :
                            all_extractions[n].Source_Summary.text # extract_log[k].t
                     /\ \A n \in 1..Len(all_verifications) :
                            all_verifications[n].t # extract_log[k].t)
    /\ [][C9_FailedCall =>
              /\ all_extractions' = all_extractions
              /\ all_verifications' = all_verifications
              /\ hub_pc' = "loop"
              /\ i' = i + 1]_vars

\* The first text's extraction failed; the second text's two records are there.
C9_Witness ==
    /\ hub_pc = "done"
    /\ Len(extract_log) = 2
    /\ extract_log[1].out.error
    /\ Len(all_extractions) = 1
    /\ Len(all_verifications) = 2
    /\ \A n \in 1..2 : all_verifications[n].t = 2

C10_Before(a, b) == a.t < b.t \/ (a.t = b.t /\ a.r < b.r)

\* The records are in the order of (text, relation within the extraction).
C10_Ordered ==
    \A p, q \in 1..Len(all_verifications) :
        p < q => C10_Before(all_verifications[p], all_verifications[q])

\* C10: the verification records are ordered by (text index, relation index),
\* and each relation surviving the filter gives exactly one record.
C10_OrderedOnePerSurvivor ==
    /\ C10_Ordered
    /\ hub_pc = "done" =>
           \A k \in 1..Len(extract_log) :
               LET e == extract_log[k] IN
               (~e.out.error /\ e.out.has_relations) =>
                   \A r \in 1..Len(e.out.Relations) :
                       C8_Verifiable(e.out.Relations[r]) =>
                           Cardinality({n \in 1..Len(all_verifications) :
                                           /\ all_verifications[n].t = e.t
                                           /\ all_verifications[n].r = r
                                           /\ all_verifications[n].Subject = e.out.Relations[r].Subject
                                           /\ all_verifications[n].Object = e.out.Relations[r].Object})
                               = 1

\* The same with a driver at hand: what holds of the code.
C10_WithDriver == driver_ok => C10_OrderedOnePerSurvivor

\* The ways a page request ends that make fetch_posts give the source up at once.
C11_Failures == {"other", "malformed", "exception"}

\* Task t's request ends in this step with one of those failures.
C11_FailsNow(t) ==
    /\ pc[t] = "awaiting"
    /\ pc'[t] # "awaiting"
    /\ last_resp'[t].kind \in C11_Failures

\* C11: a page request that ends with a status other than 200 and 429, with
\* malformed page data or with a network exception makes fetch_posts return,
\* without raising, the posts collected so far cut to limit; the source sends
\* no further request, and the step changes nothing of a sibling's fetch nor
\* of run_scraper.
C11_FailureEndsSourceOnly ==
    /\ [](\A t \in Tasks :
            /\ pc[t] # "raised"
            /\ last_resp[t].kind \in C11_Failures =>
                   /\ pc[t] = "done"
                   /\ results[t] = FirstN(all_posts[t], limit)
                   /\ results[t] = FirstN(served[t], limit))
    /\ [][\A t \in Tasks :
              C11_FailsNow(t) =>
                  /\ pc'[t] = "done"
                  /\ params'[t] = params[t]
                  /\ main_pc' = main_pc
                  /\ \A u \in Tasks \ {t} :
                         /\ pc'[u] = pc[u]
                         /\ all_posts'[u] = all_posts[u]
                         /\ after_token'[u] = after_token[u]
                         /\ retries'[u] = retries[u]
                         /\ results'[u] = results[u]]_vars
    /\ [][\A t \in Tasks :
              pc[t] = "done" =>
                  /\ pc'[t] = "done"
                  /\ params'[t] = params[t]
                  /\ attempts'[t] = attempts[t]
                  /\ results'[t] = results[t]]_vars

\* The first source returned its one post after a page that broke off while
\* parsing; the second source, having a first page, is requesting the next.
C11_Witness ==
    /\ pc[1] = "done"
    /\ last_resp[1].kind = "malformed"
    /\ Len(results[1]) = 1
    /\ pc[2] = "awaiting"
    /\ Len(all_posts[2]) = 1

\* The extractor calls whose adverse events were handed to the graph store.
C12_Lookups ==
    {k \in 1..Len(extract_log) :
        ~extract_log[k].out.error /\ Adverse(extract_log[k].out, extract_log[k].t) # <<>>}

\* The store failed in the run: no driver was obtained, or a lookup raised.
C12_StoreFailed ==
    \/ ~driver_ok /\ C12_Lookups # {}
    \/ hub_pc = "aborted"

\* C12: a store-connectivity failure (no driver, or a lookup that fails) is
\* fatal for the verification run: the text it occurs in is the last one
\* extracted, and the run does not end as a normal completion.
C12_StoreFailureFatal ==
    C12_StoreFailed =>
        /\ \A k \in C12_Lookups : ~driver_ok => k = Len(extract_log)
        /\ hub_pc # "done"

\* The same for a lookup that raises with a driver at hand: what holds of the code.
C12_LookupFailureFatal == driver_ok => C12_StoreFailureFatal

\* A lookup raised: the run ended there, after an earlier text was verified.
C12_LookupFailureSeen ==
    /\ hub_pc = "aborted"
    /\ Len(all_verifications) >= 1
    /\ i < Len(raw_texts)

\* Every source answered 200 with a page of zero items to its first request.
C13_NothingMatched ==
    \A t \in Tasks : last_resp[t].kind = "empty" /\ served[t] = <<>>

\* Every source failed: another status, an exception, or given up on 429s.
C13_EverySourceFailed ==
    \A t \in Tasks : last_resp[t].kind \in {"other", "exception", "malformed", "429"}

\* What run_scraper returns when nothing matched (the frame built from it).
C13_NoMatchValue == Flatten([t \in Tasks |-> Truncate(<<>>, limit)])

\* A run in which nothing matched returns that value.
C13_NoMatchReturnsIt ==
    (main_pc = "returned" /\ C13_NothingMatched) => flat_data = C13_NoMatchValue

\* C13: the caller of run_scraper can tell "nothing matched" from "every
\* source failed": a run in which every source failed does not return the
\* value that a run in which nothing matched returns.
C13_EmptyResultsDistinguishable ==
    (main_pc = "returned" /\ C13_EverySourceFailed) => flat_data # C13_NoMatchValue

\* run_scraper returned after every source answered 200 with zero items.
C13_NoMatchSeen == main_pc = "returned" /\ C13_NothingMatched /\ limit >= 1

\* C14: verification reads the graph of its moment, and while the graph only
\* gains edges a pair classified KNOWN is classified KNOWN by every later
\* verification: the status changes from NOVEL to KNOWN at most, never back.
C14_MonotonicTowardKnown ==
    /\ [](last_check.status # "none" =>
              /\ last_check.status =
                     verify_claim_logic(last_check.graph, query.subject,
                                        query.object_entity)
              /\ last_check.graph \subseteq graph
              /\ last_check.prev = "KNOWN" => last_check.status = "KNOWN")
    /\ [][/\ graph \subseteq graph'
          /\ last_check.status = "KNOWN" => last_check'.status = "KNOWN"]_vars

\* A pair verified NOVEL was verified again after the graph grew: KNOWN.
C14_Witness ==
    /\ last_check.prev = "NOVEL"
    /\ last_check.status = "KNOWN"

\* A KNOWN pair verified again after a second matching edge arrived: KNOWN.
C14_WitnessStaysKnown ==
    /\ last_check.prev = "KNOWN"
    /\ last_check.status = "KNOWN"
    /\ Cardinality(MatchRows(last_check.graph, query.subject, query.object_entity)) = 2

\* The listing ids of the posts a fetch returned, in order.
C15_Ids(t) == [k \in 1..Len(results[t]) |-> results[t][k].id]

\* C15: two runs of fetch_posts with the same limit that are handed the same
\* canned responses return the same posts in the same order (the same count),
\* after consuming the same responses, whatever jitter each run drew for its
\* backoff waits and however their sleeps interleave.
C15_SameResponsesSameResult ==
    (pc[1] = "done" /\ pc[2] = "done") =>
        /\ C15_Ids(1) = C15_Ids(2)
        /\ Len(results[1]) = Len(results[2])
        /\ replayed[1] = replayed[2]
        /\ last_resp[1] = last_resp[2]

\* Both runs got a page, a 429 and a second page, and returned two posts.
C15_Witness ==
    /\ pc[1] = "done" /\ pc[2] = "done"
    /\ limit = 2
    /\ canned = <<Response("page", 1, "t1"), Response("429", 0, NoCursor),
                  Response("page", 1, NoCursor)>>
    /\ Len(results[1]) = 2

\* The two runs sleep on the same 429 with different jitter.
C15_WitnessJitter ==
    /\ pc[1] = "backoff" /\ pc[2] = "backoff"
    /\ replayed[1] = replayed[2]
    /\ wait_time[1].jitter # wait_time[2].jitter

\* C16: if every request and every sleep completes, then whatever the server
\* answers each fetch_posts task returns and run_scraper returns after them;
\* a source that answers 429 to every request delays the collector by its
\* four requests and no more.
C16_EventuallyReturns ==
    /\ <>[](main_pc = "returned")
    /\ [](main_pc = "returned" => \A t \in Tasks : pc[t] = "done")
    /\ [](\A t \in Tasks : attempts[t] <= max_retries + 1)

\* run_scraper returned although one source answered 429 to every request,
\* while the other source was collected over two pages up to the limit.
C16_Witness ==
    /\ main_pc = "returned"
    /\ \E t \in Tasks :
           /\ served[t] = <<>>
           /\ last_resp[t].kind = "429"
           /\ attempts[t] = max_retries + 1
    /\ \E t \in Tasks : Len(results[t]) = 2 /\ after_token[t] = "t2"

\* C17: reddit_scraper.fetch_posts gives a source up after a fixed number of
\* 429 answers, so every fetch returns and reddit_scraper.main gets past its
\* join, also when a source answers 429 to every request.
C17_StandaloneGivesUpOn429 ==
    /\ \A t \in Tasks : <>(pc[t] = "done")
    /\ <>(main_pc = "returned")

\* What holds of the code: the fetch returns unless 429 answers never end.
C17_ReturnsUnless429Forever ==
    \A t \in Tasks : <>(pc[t] = "done") \/ []<>(pc[t] = "backoff")

\* A source has been answered 429 five times in a row and is asked again.
C17_StillRetrying ==
    \E t \in Tasks : streak[t] = max_retries + 2 /\ pc[t] = "awaiting"

\* The fetch of t is running, or it ended on a 200 or a 429 response: streak[t]
\* is then the number of 429 responses since the last 200 (or since the start).
C18_Counted(t) ==
    \/ pc[t] # "done"
    \/ last_resp[t].kind \in {"429", "page", "empty", "malformed"}

\* The source was abandoned on 429s.
C18_Abandoned(t) == pc[t] = "done" /\ last_resp[t].kind = "429"

\* C18 as stated: the retry counter always equals the number of 429 responses
\* received since the last 200 and stays within 0..4, and the source is
\* abandoned only on more than 3 consecutive 429s.
C18_CounterAlwaysEquals429s ==
    \A t \in Tasks :
        /\ retries[t] \in 0..(max_retries + 1)
        /\ C18_Counted(t) => retries[t] = streak[t]
        /\ C18_Abandoned(t) => streak[t] > max_retries

\* C18 amended: the counter is reset by every 200 and counts a 429 when the
\* backoff wait of that 429 ends: it equals the number of 429 responses since
\* the last 200 except during the wait, when it is one less; it stays within
\* 0..4; the source is abandoned only when the wait of a fourth 429 in a row
\* ends, and after a wait that follows three in a row or fewer the page is
\* requested again.
C18_CounterCounts429sAfterWait ==
    /\ [](\A t \in Tasks :
            /\ retries[t] \in 0..(max_retries + 1)
            /\ (C18_Counted(t) /\ pc[t] # "backoff") => retries[t] = streak[t]
            /\ pc[t] = "backoff" => retries[t] = streak[t] - 1
            /\ C18_Abandoned(t) => streak[t] = max_retries + 1
            /\ last_resp[t].kind \in {"page", "empty", "malformed"} => retries[t] = 0)
    /\ [][\A t \in Tasks :
              (pc[t] = "backoff" /\ pc'[t] # "backoff") =>
                  /\ retries'[t] = retries[t] + 1
                  /\ streak[t] <= max_retries =>
                         /\ pc'[t] = "awaiting"
                         /\ params'[t] = params[t]
                         /\ all_posts'[t] = all_posts[t]
                  /\ streak[t] > max_retries => pc'[t] = "done"]_vars

\* After a first page and three 429 answers in a row to the request for the
\* second, the page is requested a fourth time.
C18_Witness ==
    \E t \in Tasks :
        /\ pc[t] = "awaiting"
        /\ Len(all_posts[t]) = 1
        /\ retries[t] = max_retries
        /\ streak[t] = max_retries
        /\ attempts[t] = max_retries + 1

\* A 200 page came after 429 answers: the counter is back at 0.
C18_WitnessReset ==
    \E t \in Tasks :
        /\ pc[t] = "polite"
        /\ attempts[t] >= 2
        /\ retries[t] = 0

\* The latest response of t was a 200 page that ends the listing: one with
\* zero items, or one with items and no next cursor.
C19_EmptyPage(t) == last_resp[t].kind = "empty"
C19_LastPage(t) == last_resp[t].kind = "page" /\ last_resp[t].cursor = NoCursor

\* C19: a 200 page with zero items ends the source with nothing added; a 200
\* page with items and no next cursor has all its items appended and then ends
\* the source; both end in a return of the posts collected (cut to limit), and
\* no request follows for that source.
C19_ExhaustedSourceStops ==
    /\ [](\A t \in Tasks :
            (C19_EmptyPage(t) \/ C19_LastPage(t)) =>
                /\ pc[t] = "done"
                /\ all_posts[t] = served[t]
                /\ results[t] = FirstN(all_posts[t], limit))
    /\ [][\A t \in Tasks :
              (pc[t] = "awaiting" /\ C19_EmptyPage(t)') =>
                  /\ all_posts'[t] = all_posts[t]
                  /\ params'[t] = params[t]]_vars
    /\ [][\A t \in Tasks :
              (pc[t] = "awaiting" /\ C19_LastPage(t)') =>
                  /\ Len(all_posts'[t]) > Len(all_posts[t])
                  /\ SubSeq(all_posts'[t], 1, Len(all_posts[t])) = all_posts[t]
                  /\ all_posts'[t] = served'[t]
                  /\ params'[t] = params[t]]_vars
    /\ [][\A t \in Tasks :
              pc[t] = "done" =>
                  /\ pc'[t] = "done"
                  /\ attempts'[t] = attempts[t]
                  /\ all_posts'[t] = all_posts[t]]_vars

\* One source ended on a page with items and no next cursor after a first
\* page, the other on a page with zero items after a first page.
C19_Witness ==
    /\ C19_LastPage(1)
    /\ after_token[1] = NoCursor
    /\ Len(acc_before[1]) = 1
    /\ Len(results[1]) = 2
    /\ C19_EmptyPage(2)
    /\ after_token[2] = "t1"
    /\ Len(acc_before[2]) = 1
    /\ Len(results[2]) = 1
    /\ limit = 2

\* Task t sends a request in this step.
C20_Requests(t) == pc[t] # "awaiting" /\ pc'[t] = "awaiting"

\* C20: fetch_posts sends a request only while fewer than limit posts are
\* accumulated, none at all when limit is 0; and a fetch that has accumulated
\* limit posts or more returns exactly the first limit of them, in the order
\* they arrived.
C20_NoRequestAtLimit ==
    /\ [](\A t \in Tasks :
            /\ pc[t] = "awaiting" => Len(all_posts[t]) < limit
            /\ limit = 0 => /\ pc[t] \in {"start", "done"}
                            /\ attempts[t] = 0
                            /\ served[t] = <<>>
            /\ (pc[t] = "done" /\ Len(all_posts[t]) >= limit) =>
                   /\ Len(results[t]) = limit
                   /\ results[t] = FirstN(all_posts[t], limit)
                   /\ results[t] = FirstN(served[t], limit))
    /\ [][\A t \in Tasks :
              /\ C20_Requests(t) => Len(all_posts[t]) < limit
              /\ (pc[t] \in {"start", "polite"} /\ pc'[t] # pc[t]
                      /\ Len(all_posts[t]) >= limit) =>
                     /\ pc'[t] = "done"
                     /\ attempts'[t] = attempts[t]]_vars

\* With limit 1 a first page of two posts and a next cursor: the loop ended
\* on the count, and the first post alone was returned.
C20_Witness ==
    \E t \in Tasks :
        /\ limit = 1
        /\ pc[t] = "done"
        /\ last_resp[t] = [kind |-> "page", cursor |-> "t1"]
        /\ Len(all_posts[t]) = 2
        /\ results[t] = <<Post(t, 1)>>
        /\ attempts[t] = 1

\* With limit 0 run_scraper returned and no request was ever sent.
C20_WitnessLimitZero ==
    /\ limit = 0
    /\ main_pc = "returned"
    /\ \A t \in Tasks : attempts[t] = 0 /\ params[t] = NoCursor

\* Task t receives a 429 in this step / its backoff wait ends with a retry.
C21_Gets429(t) == pc[t] = "awaiting" /\ pc'[t] = "backoff"
C21_Retries(t) == pc[t] = "backoff" /\ pc'[t] = "awaiting"

\* C21: every request carries the cursor of the most recent 200 page of its
\* source, none before the first; a 429 and the wait after it leave the cursor
\* and the accumulated posts as they are, so the retry asks for the same page,
\* and the accumulated posts are the delivered children, each once, in order.
C21_RequestCarriesLatestCursor ==
    /\ [](\A t \in Tasks :
            /\ pc[t] = "awaiting" =>
                   /\ params[t] = last_resp[t].cursor
                   /\ served[t] = <<>> => params[t] = NoCursor
            /\ pc[t] # "done" => after_token[t] = last_resp[t].cursor
            /\ all_posts[t] = served[t]
            /\ \A k \in 1..Len(all_posts[t]) : all_posts[t][k].id = k)
    /\ [][\A t \in Tasks :
              (C21_Gets429(t) \/ C21_Retries(t)) =>
                  /\ after_token'[t] = after_token[t]
                  /\ all_posts'[t] = all_posts[t]
                  /\ params'[t] = params[t]]_vars

\* After a first page with next cursor "t2" and two 429 answers the third
\* request for the second page carries "t2".
C21_Witness ==
    \E t \in Tasks :
        /\ pc[t] = "awaiting"
        /\ last_resp[t] = [kind |-> "429", cursor |-> "t2"]
        /\ attempts[t] = 3
        /\ params[t] = "t2"
        /\ Len(all_posts[t]) = 1

\* The greatest non-jitter wait the retry limit allows: the code names no cap,
\* and the counter is at most max_retries when a wait is computed.
C22_Cap == 2 ^ max_retries

\* C22: on a 429 received with the retry counter at r the wait is
\* min(2^r, cap) plus a jitter term in the range of random.uniform(1, 3), and
\* the counter is incremented when the wait is over; over consecutive 429s the
\* non-jitter part is 1, 2, 4, 8, each the double of the one before, never
\* above the cap.
C22_BackoffDoubles ==
    /\ [](\A t \in Tasks :
            /\ pc[t] = "backoff" =>
                   /\ wait_time[t].base = Min(2 ^ retries[t], C22_Cap)
                   /\ wait_time[t].base = 2 ^ (streak[t] - 1)
                   /\ wait_time[t].base <= C22_Cap
                   /\ wait_time[t].jitter \in Jitters
                   /\ wait_time[t].jitter >= 1 /\ wait_time[t].jitter <= 3
            /\ pc[t] # "backoff" => wait_time[t] = NoWait)
    /\ [][\A t \in Tasks :
              /\ (pc[t] = "awaiting" /\ pc'[t] = "backoff") =>
                     /\ retries'[t] = retries[t]
                     /\ wait_time'[t].base = 2 ^ retries[t]
                     /\ streak[t] >= 1 => wait_time'[t].base = 2 * (2 ^ (streak[t] - 1))
              /\ (pc[t] = "backoff" /\ pc'[t] # "backoff") =>
                     retries'[t] = retries[t] + 1]_vars

\* The fourth 429 in a row: the task waits 8 s plus the greatest jitter.
C22_Witness ==
    \E t \in Tasks :
        /\ pc[t] = "backoff"
        /\ retries[t] = max_retries
        /\ streak[t] = max_retries + 1
        /\ wait_time[t] = [base |-> 8, jitter |-> 3]

\* What the server and the program see of task t's requests.
C23_View(t) ==
    <<all_posts[t], after_token[t], retries[t], params[t], served[t], streak[t],
      attempts[t], last_resp[t]>>

\* C23: a request of a source is answered before the next one is sent, and
\* between the answer and the next request the task sleeps: the politeness
\* delay after a 200 page, the backoff wait after a 429. A request is sent on
\* entry or when a sleep ends, never straight after an answer.
C23_SleepBetweenRequests ==
    /\ [](\A t \in Tasks :
            /\ pc[t] = "polite" => last_resp[t].kind = "page"
            /\ pc[t] = "backoff" => last_resp[t].kind = "429" /\ wait_time[t].base >= 1)
    /\ [][\A t \in Tasks :
              /\ (pc[t] = "awaiting" /\ pc'[t] = "awaiting") =>
                     C23_View(t)' = C23_View(t)
              /\ (pc[t] = "awaiting" /\ pc'[t] # "awaiting") =>
                     pc'[t] \in {"polite", "backoff", "done"}
              /\ (pc[t] # "awaiting" /\ pc'[t] = "awaiting") =>
                     /\ pc[t] \in {"start", "polite", "backoff"}
                     /\ pc[t] = "start" => attempts[t] = 0]_vars

\* A source slept after its first page, got a 429 for the second and now
\* sleeps again before asking once more.
C23_Witness ==
    \E t \in Tasks :
        /\ pc[t] = "backoff"
        /\ Len(all_posts[t]) = 1
        /\ attempts[t] = 1
        /\ params[t] = "t1"

\* The texts the run has passed that were skipped as too short.
C24_Skipped == {t \in 1..i : raw_texts[t] < min_text_len}

\* The texts whose extraction succeeded / failed, from the extractor calls.
C24_SucceededTexts == {extract_log[k].t : k \in {n \in 1..Len(extract_log) : ~extract_log[n].out.error}}
C24_FailedTexts == {extract_log[k].t : k \in {n \in 1..Len(extract_log) : extract_log[n].out.error}}

\* The texts with an entry in the extraction log.
C24_Logged == {all_extractions[n].Source_Summary.text : n \in 1..Len(all_extractions)}

\* C24: the extraction log holds exactly one entry for each text whose
\* extraction succeeded, in text order and with what that extraction returned,
\* whether or not a relation of it survives the filter; every verification
\* record comes from a text with an entry; skipped and failed texts have none.
C24_LogHoldsSucceededTexts ==
    /\ C24_Logged = C24_SucceededTexts
    /\ Len(all_extractions) = Cardinality(C24_SucceededTexts)
    /\ \A m, n \in 1..Len(all_extractions) :
           m < n => all_extractions[m].Source_Summary.text
                        < all_extractions[n].Source_Summary.text
    /\ \A n \in 1..Len(all_extractions) :
           \E k \in 1..Len(extract_log) :
               /\ extract_log[k].t = all_extractions[n].Source_Summary.text
               /\ all_extractions[n].Relations = extract_log[k].out.Relations
    /\ \A n \in 1..Len(all_verifications) : all_verifications[n].t \in C24_Logged
    /\ C24_Logged \cap (C24_Skipped \cup C24_FailedTexts) = {}

\* Three texts: the first extracted without any adverse event, the second
\* failed, the third gave two records; the log holds the first and the third.
C24_Witness ==
    /\ hub_pc = "done"
    /\ Len(extract_log) = 3
    /\ extract_log[1].out = Extracted(<<RelNoObject>>)
    /\ extract_log[2].out.error
    /\ C24_Logged = {1, 3}
    /\ Len(all_verifications) = 2
    /\ all_verifications[1].t = 3

\* A short text was skipped between two logged ones.
C24_WitnessSkipped ==
    /\ hub_pc = "done"
    /\ C24_Skipped = {2}
    /\ C24_Logged = {1, 3}

====
